---------------------------- MODULE Spec2Model ----------------------------
(* Model of the OEE tool.                                                   *)
(*   Spec: the record store, SimulationDataHandler (data_handler.py), and   *)
(*     the dashboard's bulk deletion OEEDashboard.delete_process_data       *)
(*     (gui.py).                                                            *)
(*   AvgSpec: SimulationDataHandler.calculate_average_metrics, applied to   *)
(*     lists of records.                                                    *)
(*   CalcSpec: OEECalculator (oee_calculator.py), each public function      *)
(*     applied to its inputs.                                               *)
(*   DashSpec: the dashboard OEEDashboard (gui.py): its process list, the   *)
(*     input form's save, the history and the deletion of a process.        *)
(*   AppSpec: the dashboard's state file and the command line (main.py) on  *)
(*     the directory the dashboard saves into.                              *)
(*                                                                          *)
(* The store is a directory of files.  A file name is modelled by its stem  *)
(* (the normalised process name), the second-resolution stamp and the       *)
(* extension; a file's content by what json.load makes of it.  Process      *)
(* names are sequences of characters so that str.replace(' ', '_') is       *)
(* computed, and a timestamp string is the sequence of its fixed-width      *)
(* fields so that isoformat(), fromisoformat() and the string comparison    *)
(* used by list.sort are computed, not assumed.                             *)
EXTENDS Integers, Sequences, FiniteSets, TLC

VARIABLES now, files, lastOp, dashboard

vars == <<now, files, lastOp, dashboard>>

-----------------------------------------------------------------------------
(* Bounds *)

MaxFiles == 2
MaxQDays == 1
MaxLimit == 1

(* Clock.  One tick is a fraction of a second. *)
TicksPerSecond == 2
SecondsPerHour == 3600
HoursPerDay == 24
TicksPerHour == TicksPerSecond * SecondsPerHour
TicksPerDay == TicksPerHour * HoursPerDay

(* the instants at which the clock is read *)
Instants == {0, 1, TicksPerHour, 2 * TicksPerDay}

DefaultLimit == 100

-----------------------------------------------------------------------------
(* Values *)

NameSpace == <<"A", " ", "B">>
NameUnderscore == <<"A", "_", "B">>
NameOther == <<"Z">>
EmptyName == << >>

SaveNames == {NameSpace, NameUnderscore}
(* the measurement and ratio fields of a record, as one opaque value *)
Payloads == {"p1", "p2"}
(* every caller of save_simulation_run leaves the format at its default *)
Formats == {"json"}
IOOutcomes == {"ok", "open_fails", "write_fails"}

Some(v) == [present |-> TRUE, v |-> v]
Absent == [present |-> FALSE, v |-> << >>]

QueryNames == {Absent, Some(EmptyName), Some(NameSpace), Some(NameOther)}
QueryDays == 0..MaxQDays
QueryLimits == (0..MaxLimit) \cup {DefaultLimit}

(* str.replace(' ', '_') *)
ReplaceSpaces(name) ==
  [i \in DOMAIN name |-> IF name[i] = " " THEN "_" ELSE name[i]]

(* strftime("%Y%m%d_%H%M%S"): the clock at second resolution *)
StrfTime(t) == t \div TicksPerSecond

(* datetime.isoformat(): the fraction is printed only when it is not zero *)
IsoFormat(t) ==
  IF t % TicksPerSecond = 0
  THEN <<t \div TicksPerSecond>>
  ELSE <<t \div TicksPerSecond, t % TicksPerSecond>>

(* datetime.fromisoformat() on a string isoformat() printed *)
FromIsoFormat(s) ==
  s[1] * TicksPerSecond + (IF Len(s) > 1 THEN s[2] ELSE 0)

IsoTs(t) == [kind |-> "iso", s |-> IsoFormat(t)]
TsOf(kind) == [kind |-> kind, s |-> << >>]

(* Python's < on strings: lexicographic, a proper prefix is smaller *)
RECURSIVE StrLess(_, _)
StrLess(a, b) ==
  IF b = << >> THEN FALSE
  ELSE IF a = << >> THEN TRUE
  ELSE IF Head(a) /= Head(b) THEN Head(a) < Head(b)
  ELSE StrLess(Tail(a), Tail(b))

Dict(name, ts, payload) ==
  [kind |-> "dict", model_name |-> name, timestamp |-> ts, payload |-> payload]

NonDict(kind) ==
  [kind |-> kind, model_name |-> Absent, timestamp |-> TsOf("absent"), payload |-> ""]

(* the file left behind by a write that failed part-way *)
Truncated == NonDict("invalid")

FileName(stem, stamp, ext) == [stem |-> stem, stamp |-> stamp, ext |-> ext]

NoOp == [op |-> "none"]

(* OEEDashboard's process list and selected process, before a dashboard is  *)
(* started: models = [] and an empty StringVar                              *)
NoDashboard ==
  [models |-> << >>, current_model |-> << >>, dropdown_values |-> << >>]

-----------------------------------------------------------------------------
Init ==
  /\ now = 0
  /\ files = << >>
  /\ dashboard = NoDashboard
  /\ lastOp = NoOp

(* the clock advances *)
Tick ==
  /\ \E t \in Instants : t > now /\ now' = t
  /\ lastOp' = NoOp
  /\ UNCHANGED <<files, dashboard>>

(* the caller is done with the outcome of its last call; every call is     *)
(* made after the call before it has returned                               *)
Return ==
  /\ lastOp /= NoOp
  /\ lastOp' = NoOp
  /\ UNCHANGED <<now, files, dashboard>>

WriteFile(fs, fn, content) ==
  [f \in (DOMAIN fs) \cup {fn} |-> IF f = fn THEN content ELSE fs[f]]

RemoveFiles(fs, gone) ==
  [f \in (DOMAIN fs) \ gone |-> fs[f]]


-----------------------------------------------------------------------------
(* SimulationDataHandler.save_simulation_run(simulation_data, model_name,   *)
(* format).  The clock is read twice, once for the file name and once for   *)
(* the record, and may advance in between.  open(path, 'w') truncates an    *)
(* existing file; a failure of open raises before anything is written, a    *)
(* failure of the dump raises and leaves the truncated file behind.  A      *)
(* format that is neither json nor csv leaves file_path unbound, so the     *)
(* return statement raises.                                                 *)
SavePath(name, fmt) == FileName(ReplaceSpaces(name), StrfTime(now), fmt)

(* the dictionary handed in: its fields, and the timestamp it may carry *)
Handed(payload, given) == Dict(Absent, given, payload)

GivenTimestamps == {TsOf("absent"), IsoTs(0)}

SaveRecordKeepsGiven(simulation_data, name, t2) ==
  [simulation_data EXCEPT
     !.timestamp = IF simulation_data.timestamp.kind = "absent"
                   THEN IsoTs(t2) ELSE simulation_data.timestamp,
     !.model_name = Some(name)]

(* simulation_data["timestamp"] = now().isoformat(); ["model_name"] = ...:  *)
(* both keys are assigned whether the dictionary has them or not            *)
SaveRecord(simulation_data, name, t2) ==
  [simulation_data EXCEPT !.timestamp = IsoTs(t2), !.model_name = Some(name)]

SaveRaises(fmt, io) == fmt \notin {"json", "csv"} \/ io /= "ok"

SaveFiles(simulation_data, name, fmt, t2, io) ==
  IF fmt \notin {"json", "csv"} \/ io = "open_fails" THEN files
  ELSE IF io = "write_fails" THEN WriteFile(files, SavePath(name, fmt), Truncated)
  ELSE WriteFile(files, SavePath(name, fmt), SaveRecord(simulation_data, name, t2))

SaveSimulationRun ==
  \E name \in SaveNames, payload \in Payloads, given \in GivenTimestamps,
     fmt \in Formats, t2 \in {now, now + 1} \cap Instants, io \in IOOutcomes :
    /\ lastOp = NoOp
    /\ (SavePath(name, fmt) \notin DOMAIN files) => Cardinality(DOMAIN files) < MaxFiles
    /\ now' = t2
    /\ files' = SaveFiles(Handed(payload, given), name, fmt, t2, io)
    /\ lastOp' = [op |-> "save", simulation_data |-> Handed(payload, given),
                  name |-> name, format |-> fmt, io |-> io,
                  raised |-> SaveRaises(fmt, io),
                  path |-> IF SaveRaises(fmt, io) THEN Absent
                           ELSE Some(SavePath(name, fmt))]
    /\ UNCHANGED dashboard

-----------------------------------------------------------------------------
(* SimulationDataHandler.load_simulation_run(file_path).  A missing file    *)
(* raises FileNotFoundError; a .json file gives what json.load makes of it  *)
(* and raises when it cannot be parsed; a .csv file gives its first row,    *)
(* every value a string; any other extension raises ValueError.             *)
LoadSimulationRun(fs, path) ==
  IF path \notin DOMAIN fs THEN [raised |-> TRUE, return |-> NonDict("none")]
  ELSE IF path.ext = "json"
  THEN IF fs[path].kind = "invalid"
       THEN [raised |-> TRUE, return |-> NonDict("none")]
       ELSE [raised |-> FALSE, return |-> fs[path]]
  ELSE IF path.ext = "csv"
  THEN [raised |-> FALSE, return |-> [fs[path] EXCEPT !.kind = "csvrow"]]
  ELSE [raised |-> TRUE, return |-> NonDict("none")]

(* the paths asked for: those of the stored files, and one of no file *)
LoadPaths == DOMAIN files \cup {FileName(NameOther, 0, "json")}

(* As a query, a load is a call made by a caller that is done with its last *)
(* call.                                                                    *)
LoadCall ==
  \E path \in LoadPaths :
    LET r == LoadSimulationRun(files, path)
    IN /\ lastOp = NoOp
       /\ lastOp' = [op |-> "load", path |-> path, raised |-> r.raised,
                     return |-> r.return]
       /\ UNCHANGED <<now, files, dashboard>>

-----------------------------------------------------------------------------
(* Files put into the storage directory by something other than             *)
(* save_simulation_run: what os.listdir and json.load may find there.       *)
ForeignFile == FileName(<<"x">>, 0, "json")

ForeignContents ==
  {NonDict("list"), NonDict("scalar")}
    \cup {Dict(Some(NameSpace), TsOf(k), "p1") :
            k \in {"absent", "garbage", "number", "aware"}}

ExternalWrite ==
  \E c \in ForeignContents :
    /\ lastOp = NoOp
    /\ ForeignFile \notin DOMAIN files
    /\ Cardinality(DOMAIN files) < MaxFiles
    /\ files' = WriteFile(files, ForeignFile, c)
    /\ lastOp' = NoOp
    /\ UNCHANGED <<now, dashboard>>

-----------------------------------------------------------------------------
(* SimulationDataHandler.get_recent_simulations(model_name, days, limit)    *)

(* os.listdir returns the names in an arbitrary order *)
Orders(S) ==
  {o \in [1..Cardinality(S) -> S] : \A i, j \in DOMAIN o : o[i] = o[j] => i = j}

EndsWithJson(f) == f.ext = "json"

(* cutoff_date = now - timedelta(days=days) *)
CutoffDateSignFlipped(t, days) == t + days * TicksPerDay

CutoffDate(t, days) == t - days * TicksPerDay

(* "if model_name and ...": the filter applies to a non-empty name only *)
NameFilterApplies(q) == q.present /\ q.v /= << >>

(* The body of the loop for one file: TRUE when the loaded data is appended *)
(* to results, FALSE when it is skipped by a continue or by the except.     *)
(*   invalid: json.load raises.                                              *)
(*   list, scalar: data.get raises when the name filter applies; otherwise   *)
(*     'timestamp' in data raises for a scalar and is False for a list.      *)
(*   dict: fromisoformat raises on garbage or on a number; an offset-aware   *)
(*     value parses but its comparison with the naive cutoff raises.         *)
Admits(data, q, cutoff) ==
  /\ data.kind /= "invalid"
  /\ NameFilterApplies(q) => (data.kind = "dict" /\ data.model_name = q)
  /\ data.kind /= "scalar"
  /\ data.kind = "dict" =>
       \/ data.timestamp.kind = "absent"
       \/ /\ data.timestamp.kind = "iso"
          /\ ~(FromIsoFormat(data.timestamp.s) < cutoff)

Entry(fs, f) == [file |-> f, data |-> fs[f]]

RECURSIVE Collect(_, _, _, _)
Collect(fs, order, q, cutoff) ==
  IF order = << >> THEN << >>
  ELSE LET f == Head(order)
           rest == Collect(fs, Tail(order), q, cutoff)
       IN IF EndsWithJson(f) /\ Admits(fs[f], q, cutoff)
          THEN <<Entry(fs, f)>> \o rest
          ELSE rest

(* key=lambda x: x.get('timestamp', '') *)
SortKey(e) ==
  IF e.data.timestamp.kind = "iso" THEN e.data.timestamp.s ELSE << >>

(* list.sort(reverse=True) is stable: equal keys keep their order *)
RECURSIVE InsertAsc(_, _)
InsertAsc(x, s) ==
  IF s = << >> THEN <<x>>
  ELSE IF StrLess(SortKey(x), SortKey(Head(s))) THEN <<x>> \o s
  ELSE <<Head(s)>> \o InsertAsc(x, Tail(s))

RECURSIVE InsertDesc(_, _)
InsertDesc(x, s) ==
  IF s = << >> THEN <<x>>
  ELSE IF StrLess(SortKey(Head(s)), SortKey(x)) THEN <<x>> \o s
  ELSE <<Head(s)>> \o InsertDesc(x, Tail(s))

RECURSIVE SortDesc(_, _)
SortDesc(todo, done) ==
  IF todo = << >> THEN done
  ELSE SortDesc(Tail(todo), InsertDesc(Head(todo), done))

(* results[:limit] for limit >= 0 *)
Slice(s, limit) ==
  SubSeq(s, 1, IF limit < Len(s) THEN limit ELSE Len(s))

LimitThenSort(collected, limit) == SortDesc(Slice(collected, limit), << >>)

SortAndLimit(collected, limit) == Slice(SortDesc(collected, << >>), limit)

(* the key function raises AttributeError on an element that has no get *)
SortRaises(collected) ==
  \E i \in DOMAIN collected : collected[i].data.kind /= "dict"

GetRecentSimulations(fs, order, t, q, days, limit) ==
  LET collected == Collect(fs, order, q, CutoffDate(t, days))
  IN IF SortRaises(collected)
     THEN [raised |-> TRUE, results |-> << >>]
     ELSE [raised |-> FALSE, results |-> SortAndLimit(collected, limit)]

(* A query changes neither the store nor the clock and does not read the    *)
(* outcome of the call before it: the model takes the query as a call made  *)
(* by a caller that is done with its last call.                             *)
ListBy ==
  \E q \in QueryNames, days \in QueryDays, limit \in QueryLimits,
     order \in Orders(DOMAIN files) :
    LET r == GetRecentSimulations(files, order, now, q, days, limit)
    IN /\ lastOp = NoOp
       /\ lastOp' = [op |-> "list",
                     query |-> [name |-> q, days |-> days, limit |-> limit],
                     raised |-> r.raised, results |-> r.results]
       /\ UNCHANGED <<now, files, dashboard>>

-----------------------------------------------------------------------------
(* OEEDashboard.delete_process_data(process_name).  Every .json file is     *)
(* loaded; a file that cannot be loaded, or whose data has no get, is       *)
(* logged and passed over; a file whose model_name equals process_name is   *)
(* removed.  A failing os.remove is caught by the same handler, so the      *)
(* loop goes on and the function ends normally.  deleted_files is logged;   *)
(* the function has no return value.                                        *)
Belongs(data, name) == data.kind = "dict" /\ data.model_name = Some(name)

MatchingAny(fs, name) == {f \in DOMAIN fs : EndsWithJson(f)}

Matching(fs, name) ==
  {f \in DOMAIN fs : EndsWithJson(f) /\ Belongs(fs[f], name)}

NoneValue == [isNone |-> TRUE, n |-> 0]
IntValue(n) == [isNone |-> FALSE, n |-> n]

DeleteReturn(deleted_files) == NoneValue

DeleteNames == SaveNames \cup {NameOther}

DeleteProcessData ==
  \E name \in DeleteNames :
    \E failing \in SUBSET Matching(files, name) :
      LET removed == Matching(files, name) \ failing
      IN /\ lastOp = NoOp
         /\ files' = RemoveFiles(files, removed)
         /\ lastOp' = [op |-> "delete", name |-> name,
                       deleted_files |-> Cardinality(removed),
                       failed |-> Cardinality(failing),
                       raised |-> FALSE,
                       return |-> DeleteReturn(Cardinality(removed))]
         /\ UNCHANGED <<now, dashboard>>

-----------------------------------------------------------------------------
Next ==
  \/ Tick
  \/ Return
  \/ SaveSimulationRun
  \/ LoadCall
  \/ ExternalWrite
  \/ ListBy
  \/ DeleteProcessData

Spec == Init /\ [][Next]_vars

-----------------------------------------------------------------------------
(* Vocabulary of the properties *)

Listed == lastOp.op = "list" /\ ~lastOp.raised

Query == lastOp.query

(* a record as save_simulation_run writes it *)
IsRecord(data) == data.kind = "dict" /\ data.timestamp.kind = "iso"

CreatedAt(data) == FromIsoFormat(data.timestamp.s)

ResultFiles == {lastOp.results[i].file : i \in DOMAIN lastOp.results}

(* the files a query admits: the name and time filters of the loop *)
Passing(q, days) ==
  {f \in DOMAIN files : EndsWithJson(f) /\ Admits(files[f], q, CutoffDate(now, days))}

(* C1: the store is append-only.  A successful append into a store that    *)
(* holds only appended records leaves every stored record in place and      *)
(* unchanged and adds one record, also when it falls into the same clock    *)
(* second as an earlier append of the same or a space/underscore variant    *)
(* name.                                                                    *)
C1_AppendOnly ==
  [][ ( /\ \A f \in DOMAIN files : IsRecord(files[f])
        /\ lastOp'.op = "save"
        /\ ~lastOp'.raised )
      => ( /\ \A f \in DOMAIN files : f \in DOMAIN files' /\ files'[f] = files[f]
           /\ Cardinality(DOMAIN files') = Cardinality(DOMAIN files) + 1 ) ]_vars

(* C2: one record appended for a process at time T into an empty store is   *)
(* the whole result of list_by(process, since = 1 day) at T + 1 hour, and   *)
(* the same query at T + 2 days returns the empty sequence.                 *)
C2_TimeWindow ==
  \A f \in DOMAIN files :
    ( /\ lastOp.op = "list"
      /\ DOMAIN files = {f}
      /\ EndsWithJson(f)
      /\ IsRecord(files[f])
      /\ Query.name = files[f].model_name
      /\ Query.days = 1
      /\ Query.limit = DefaultLimit )
    => ( /\ now = CreatedAt(files[f]) + TicksPerHour
            => (~lastOp.raised /\ lastOp.results = <<[file |-> f, data |-> files[f]]>>)
         /\ now = CreatedAt(files[f]) + 2 * TicksPerDay
            => (~lastOp.raised /\ lastOp.results = << >>) )

C2_Witness ==
  /\ lastOp.op = "list"
  /\ Query.name = Some(NameSpace)
  /\ Query.days = 1
  /\ Query.limit = DefaultLimit
  /\ now = TicksPerHour
  /\ \E f \in DOMAIN files :
       /\ DOMAIN files = {f}
       /\ files[f].model_name = Some(NameSpace)
       /\ files[f].timestamp = IsoTs(0)
       /\ lastOp.results = <<[file |-> f, data |-> files[f]]>>

(* C3: every record list_by returns has a created_at, and it is not older   *)
(* than now - since.                                                        *)
C3_OnlyRecent ==
  Listed =>
    \A i \in DOMAIN lastOp.results :
      /\ lastOp.results[i].data.timestamp.kind = "iso"
      /\ CreatedAt(lastOp.results[i].data) >= now - Query.days * TicksPerDay

(* C4: with a process_name given, the empty string included, every         *)
(* returned record has exactly that process_name; with it omitted, every    *)
(* record inside the window is returned, whatever its process name.         *)
C4_NameFilter ==
  Listed =>
    /\ Query.name.present =>
         \A i \in DOMAIN lastOp.results :
           lastOp.results[i].data.model_name = Query.name
    /\ (~Query.name.present /\ Query.limit = DefaultLimit) =>
         \A f \in DOMAIN files :
           ( /\ EndsWithJson(f)
             /\ IsRecord(files[f])
             /\ CreatedAt(files[f]) >= now - Query.days * TicksPerDay )
           => f \in ResultFiles

(* C5: the result of list_by is ordered newest first: of two returned       *)
(* records that carry a created_at, the one returned earlier is not the     *)
(* older one.                                                               *)
C5_NewestFirst ==
  Listed =>
    \A i, j \in DOMAIN lastOp.results :
      ( /\ i < j
        /\ IsRecord(lastOp.results[i].data)
        /\ IsRecord(lastOp.results[j].data) )
      => CreatedAt(lastOp.results[i].data) >= CreatedAt(lastOp.results[j].data)

C5_Witness ==
  /\ Listed
  /\ Len(lastOp.results) = 2
  /\ IsRecord(lastOp.results[1].data)
  /\ IsRecord(lastOp.results[2].data)
  /\ CreatedAt(lastOp.results[1].data) > CreatedAt(lastOp.results[2].data)

(* C6: list_by returns at most limit records, and they are the newest of    *)
(* the records that pass the name and time filters: as many as the limit    *)
(* allows, each of them passing, none of them older than a passing record   *)
(* that was left out.                                                       *)
Age(data) == IF IsRecord(data) THEN CreatedAt(data) ELSE 0 - 1

Corrupt(data) ==
  \/ data.kind /= "dict"
  \/ data.timestamp.kind \in {"garbage", "number", "aware"}

C7_CorruptSkipped ==
  lastOp.op = "list" =>
    /\ ~lastOp.raised
    /\ \A i \in DOMAIN lastOp.results : ~Corrupt(lastOp.results[i].data)
    /\ Query.limit = DefaultLimit =>
         \A f \in Passing(Query.name, Query.days) :
           ~Corrupt(files[f]) => f \in ResultFiles

(* C8: after delete_all_for(p) no stored record has process_name p, and    *)
(* the call returned the number of records it deleted.                      *)
C8_DeleteAll ==
  lastOp.op = "delete" =>
    /\ Matching(files, lastOp.name) = {}
    /\ lastOp.return = IntValue(lastOp.deleted_files)

(* C9: delete_all_for on a process_name without records returns 0, does    *)
(* not raise and leaves the store unchanged.                                *)
C9_DeleteNothing ==
  [][ (lastOp'.op = "delete" /\ Matching(files, lastOp'.name) = {})
      => ( /\ files' = files
           /\ ~lastOp'.raised
           /\ lastOp'.return = IntValue(0) ) ]_vars

(* C10: a storage failure is surfaced: an append whose write failed raises  *)
(* and returns no identifier, and a delete in which the removal of a        *)
(* matching record failed does not end as a success.                        *)
C10_FailureSurfaced ==
  /\ (lastOp.op = "save" /\ lastOp.io /= "ok") =>
       (lastOp.raised /\ ~lastOp.path.present)
  /\ (lastOp.op = "delete" /\ lastOp.failed > 0) => lastOp.raised

-----------------------------------------------------------------------------
(* Numbers.  Python's int and float values are modelled by exact rationals  *)
(* in lowest terms with a positive denominator, so that two equal values    *)
(* are equal records.                                                       *)
RECURSIVE GCD(_, _)
GCD(a, b) == IF b = 0 THEN a ELSE GCD(b, a % b)

Abs(n) == IF n < 0 THEN -n ELSE n

Rat(n, d) ==
  LET g == GCD(Abs(n), Abs(d))
      s == IF d < 0 THEN -1 ELSE 1
  IN [n |-> s * (n \div g), d |-> s * (d \div g)]

Zero == Rat(0, 1)
One == Rat(1, 1)

RatAdd(a, b) == Rat(a.n * b.d + b.n * a.d, a.d * b.d)
RatSub(a, b) == Rat(a.n * b.d - b.n * a.d, a.d * b.d)
RatMul(a, b) == Rat(a.n * b.n, a.d * b.d)
(* a / b for b /= 0 *)
RatDiv(a, b) == Rat(a.n * b.d, a.d * b.n)
RatLess(a, b) == a.n * b.d < b.n * a.d
RatLeq(a, b) == a.n * b.d <= b.n * a.d

(* a call that is about to be made, and the outcome of a call *)
Call(fn, args) == [op |-> "call", fn |-> fn, args |-> args]

-----------------------------------------------------------------------------
(* SimulationDataHandler.calculate_average_metrics(simulation_data_list)    *)

(* what json.load gives for the value of a key *)
JsonInt(n) == [kind |-> "int", num |-> Rat(n, 1)]
JsonFloat(r) == [kind |-> "float", num |-> r]
(* bool is a subclass of int: True is 1 and False is 0 in arithmetic *)
JsonBool(b) == [kind |-> "bool", num |-> IF b THEN One ELSE Zero]
JsonStr == [kind |-> "str", num |-> Zero]
JsonNull == [kind |-> "null", num |-> Zero]
Missing == [kind |-> "missing", num |-> Zero]

MaxRecords == 2

(* the keys of totals, in the order of the literal *)
AverageFields ==
  <<"total_time", "downtime", "completed_simulations",
    "ideal_time_per_simulation", "total_simulations", "valid_simulations",
    "availability", "efficiency", "quality", "effectiveness">>

FieldSet == {AverageFields[i] : i \in DOMAIN AverageFields}

(* The records handed to the function.  Every record carries model_name;    *)
(* one measurement field varies over every kind of value and one ratio      *)
(* field over three of them; the other eight of the ten fields are absent.  *)
FieldChoices ==
  {Missing, JsonInt(2), JsonFloat(Rat(1, 2)), JsonStr, JsonNull, JsonBool(TRUE)}

RatioChoices == {Missing, JsonFloat(Rat(1, 2)), JsonStr}

MakeRecord(tt, eff) ==
  [k \in {"model_name"}
           \cup (IF tt = Missing THEN {} ELSE {"total_time"})
           \cup (IF eff = Missing THEN {} ELSE {"effectiveness"}) |->
     IF k = "total_time" THEN tt
     ELSE IF k = "effectiveness" THEN eff
     ELSE JsonStr]

Records == {MakeRecord(tt, eff) : tt \in FieldChoices, eff \in RatioChoices}

RecordLists == UNION {[1..n -> Records] : n \in 0..MaxRecords}

(* isinstance(v, (int, float)) *)
IsInstanceFloatOnly(v) == v.kind = "float"

IsInstanceNumber(v) == v.kind \in {"int", "float", "bool"}

(* "key in data and isinstance(data[key], (int, float))" *)
Contributes(data, key) == key \in DOMAIN data /\ IsInstanceNumber(data[key])

StartTotals ==
  [totals |-> [k \in FieldSet |-> Zero], counts |-> [k \in FieldSet |-> 0]]

(* the inner loop, for one record *)
AddRecord(acc, data) ==
  [totals |-> [k \in FieldSet |->
                 IF Contributes(data, k)
                 THEN RatAdd(acc.totals[k], data[k].num) ELSE acc.totals[k]],
   counts |-> [k \in FieldSet |->
                 IF Contributes(data, k)
                 THEN acc.counts[k] + 1 ELSE acc.counts[k]]]

RECURSIVE Accumulate(_, _)
Accumulate(list, acc) ==
  IF list = << >> THEN acc
  ELSE Accumulate(Tail(list), AddRecord(acc, Head(list)))

EmptyMapping == << >>

(* the last loop *)
Averages(acc) ==
  [k \in FieldSet |->
     IF acc.counts[k] > 0
     THEN RatDiv(acc.totals[k], Rat(acc.counts[k], 1))
     ELSE Zero]

CalculateAverageMetrics(list) ==
  IF list = << >> THEN EmptyMapping
  ELSE Averages(Accumulate(list, StartTotals))

AverageCalls == {Call("calculate_average_metrics", l) : l \in RecordLists}

AvgInit ==
  /\ now = 0
  /\ files = << >>
  /\ dashboard = NoDashboard
  /\ lastOp \in AverageCalls

AverageCall ==
  /\ lastOp.op = "call"
  /\ lastOp.fn = "calculate_average_metrics"
  /\ lastOp' = [op |-> "average", args |-> lastOp.args,
                return |-> CalculateAverageMetrics(lastOp.args)]
  /\ UNCHANGED <<now, files, dashboard>>

AvgNext == AverageCall

AvgSpec == AvgInit /\ [][AvgNext]_vars

(* Vocabulary of the averaging claims.  A value is numeric when it is a     *)
(* number of the record format: a string, a null and a boolean are not.     *)
Averaged == lastOp.op = "average"

Numeric(v) == v.kind \in {"int", "float"}

(* the positions of the records that hold a numeric value for the field *)
Holders(list, k) ==
  {i \in DOMAIN list : k \in DOMAIN list[i] /\ Numeric(list[i][k])}

RECURSIVE SumOver(_, _, _)
SumOver(list, k, S) ==
  IF S = {} THEN Zero
  ELSE LET i == CHOOSE x \in S : TRUE
       IN RatAdd(list[i][k].num, SumOver(list, k, S \ {i}))

Mean(list, k) ==
  RatDiv(SumOver(list, k, Holders(list, k)),
         Rat(Cardinality(Holders(list, k)), 1))

(* C11: every one of the ten fields that some record holds a numeric value  *)
(* for is averaged on its own: the result is the sum of the field over      *)
(* exactly the records holding a numeric value for it, divided by their     *)
(* number; records that lack the field, or hold a string, a null or a       *)
(* boolean for it, count for neither.                                       *)
C11_FieldwiseMean ==
  Averaged =>
    \A k \in FieldSet :
      Holders(lastOp.args, k) /= {} =>
        lastOp.return[k] = Mean(lastOp.args, k)

(* C12: the average of no records is the empty mapping; the average of some *)
(* records has exactly the ten fields as keys, and a field no record holds  *)
(* a numeric value for is mapped to 0.                                      *)
C12_KeysAndZero ==
  Averaged =>
    IF lastOp.args = << >>
    THEN DOMAIN lastOp.return = {}
    ELSE /\ DOMAIN lastOp.return = FieldSet
         /\ \A k \in FieldSet :
              Holders(lastOp.args, k) = {} => lastOp.return[k] = Zero

(* C13: the average of one record gives, for each of the ten fields the     *)
(* record holds a numeric value for, exactly that value.                    *)
C13_SingleRecord ==
  (Averaged /\ Len(lastOp.args) = 1) =>
    \A k \in FieldSet :
      (k \in DOMAIN lastOp.args[1] /\ Numeric(lastOp.args[1][k])) =>
        lastOp.return[k] = lastOp.args[1][k].num

C13_Witness ==
  /\ Averaged
  /\ Len(lastOp.args) = 1
  /\ "total_time" \in DOMAIN lastOp.args[1]
  /\ lastOp.args[1]["total_time"] = JsonFloat(Rat(1, 2))
  /\ "effectiveness" \notin DOMAIN lastOp.args[1]
  /\ lastOp.return["total_time"] = Rat(1, 2)
  /\ lastOp.return["effectiveness"] = Zero

-----------------------------------------------------------------------------
(* OEECalculator.  A call either returns a value or raises; the only        *)
(* operation of these functions that can raise on numbers is the division.  *)
Returned(v) == [raised |-> FALSE, value |-> v]
Raised == [raised |-> TRUE, value |-> Zero]

(* a / b: ZeroDivisionError when b is zero *)
TrueDiv(a, b) == IF b.n = 0 THEN Raised ELSE Returned(RatDiv(a, b))

(* min(a, b) and max(a, b) return the first argument unless the second is   *)
(* strictly smaller, respectively strictly greater                          *)
PyMin(a, b) == IF RatLess(b, a) THEN b ELSE a
PyMax(a, b) == IF RatLess(a, b) THEN b ELSE a

CalculateAvailabilityUnclamped(total_time, downtime) ==
  IF RatLeq(total_time, Zero) THEN Returned(Zero)
  ELSE TrueDiv(RatSub(total_time, downtime), total_time)

CalculateAvailability(total_time, downtime) ==
  IF RatLeq(total_time, Zero) THEN Returned(Zero)
  ELSE LET q == TrueDiv(RatSub(total_time, downtime), total_time)
       IN IF q.raised THEN Raised
          ELSE Returned(PyMax(Zero, PyMin(One, q.value)))

(* the rates of calculate_efficiency, from its three divisions *)
Rates(completed_simulations, total_time, ideal_time_per_simulation) ==
  LET ideal_simulations == TrueDiv(total_time, ideal_time_per_simulation)
      actual_rate == TrueDiv(completed_simulations, total_time)
      ideal_rate == IF ideal_simulations.raised THEN Raised
                    ELSE TrueDiv(ideal_simulations.value, total_time)
  IN [raised |-> ideal_simulations.raised \/ actual_rate.raised \/ ideal_rate.raised,
      actual_rate |-> actual_rate.value,
      ideal_rate |-> ideal_rate.value]

CalculateEfficiencyUnclamped(completed_simulations, total_time, ideal_time_per_simulation) ==
  IF RatLeq(total_time, Zero) \/ RatLeq(ideal_time_per_simulation, Zero)
  THEN Returned(Zero)
  ELSE LET r == Rates(completed_simulations, total_time, ideal_time_per_simulation)
       IN IF r.raised THEN Raised
          ELSE IF RatLeq(r.ideal_rate, Zero) THEN Returned(Zero)
          ELSE TrueDiv(r.actual_rate, r.ideal_rate)

CalculateEfficiencyUnguarded(completed_simulations, total_time, ideal_time_per_simulation) ==
  LET r == Rates(completed_simulations, total_time, ideal_time_per_simulation)
  IN IF r.raised THEN Raised
     ELSE IF RatLeq(r.ideal_rate, Zero) THEN Returned(Zero)
     ELSE LET q == TrueDiv(r.actual_rate, r.ideal_rate)
          IN IF q.raised THEN Raised
             ELSE Returned(PyMax(Zero, PyMin(One, q.value)))

CalculateEfficiency(completed_simulations, total_time, ideal_time_per_simulation) ==
  IF RatLeq(total_time, Zero) \/ RatLeq(ideal_time_per_simulation, Zero)
  THEN Returned(Zero)
  ELSE LET r == Rates(completed_simulations, total_time, ideal_time_per_simulation)
       IN IF r.raised THEN Raised
          ELSE IF RatLeq(r.ideal_rate, Zero) THEN Returned(Zero)
          ELSE LET q == TrueDiv(r.actual_rate, r.ideal_rate)
               IN IF q.raised THEN Raised
                  ELSE Returned(PyMax(Zero, PyMin(One, q.value)))

CalculateQualityNoFloor(total_simulations, valid_simulations) ==
  IF RatLeq(total_simulations, Zero) THEN Returned(Zero)
  ELSE LET q == TrueDiv(valid_simulations, total_simulations)
       IN IF q.raised THEN Raised ELSE Returned(PyMin(One, q.value))

CalculateQualityNoCeiling(total_simulations, valid_simulations) ==
  IF RatLeq(total_simulations, Zero) THEN Returned(Zero)
  ELSE LET q == TrueDiv(valid_simulations, total_simulations)
       IN IF q.raised THEN Raised ELSE Returned(PyMax(Zero, q.value))

CalculateQuality(total_simulations, valid_simulations) ==
  IF RatLeq(total_simulations, Zero) THEN Returned(Zero)
  ELSE LET q == TrueDiv(valid_simulations, total_simulations)
       IN IF q.raised THEN Raised
          ELSE Returned(PyMax(Zero, PyMin(One, q.value)))

CalculateEffectivenessWithoutQuality(availability, efficiency, quality) ==
  Returned(RatMul(availability, efficiency))

(* availability * efficiency * quality, multiplied from the left *)
CalculateEffectiveness(availability, efficiency, quality) ==
  Returned(RatMul(RatMul(availability, efficiency), quality))

OeeDict(a, b, c, z) ==
  [availability |-> a, efficiency |-> b, quality |-> c, effectiveness |-> z]

(* calculate_complete_oee: an exception of a sub-function propagates *)
CalculateCompleteOee(in) ==
  LET availability == CalculateAvailability(in.total_time, in.downtime)
      efficiency == CalculateEfficiency(in.completed_simulations, in.total_time,
                                        in.ideal_time_per_simulation)
      quality == CalculateQuality(in.total_simulations, in.valid_simulations)
      effectiveness == CalculateEffectiveness(availability.value, efficiency.value,
                                              quality.value)
  IN IF availability.raised \/ efficiency.raised \/ quality.raised \/ effectiveness.raised
     THEN [raised |-> TRUE, value |-> OeeDict(Zero, Zero, Zero, Zero)]
     ELSE [raised |-> FALSE,
           value |-> OeeDict(availability.value, efficiency.value, quality.value,
                             effectiveness.value)]

(* calculate_metrics: percentages, an efficiency from the uptime per        *)
(* completed simulation, no clamps; any exception ends in the zero result   *)
Percent == 100

CalculateMetrics(in) ==
  LET hundred == Rat(Percent, 1)
      uptime == RatSub(in.total_time, in.downtime)
      share == TrueDiv(uptime, in.total_time)
      availability == IF RatLess(Zero, in.total_time)
                      THEN [raised |-> share.raised,
                            value |-> RatMul(share.value, hundred)]
                      ELSE Returned(Zero)
      actual_time_per_simulation ==
        IF RatLess(Zero, in.completed_simulations)
        THEN TrueDiv(uptime, in.completed_simulations)
        ELSE Returned(Zero)
      speed == TrueDiv(in.ideal_time_per_simulation, actual_time_per_simulation.value)
      efficiency == IF actual_time_per_simulation.raised THEN Raised
                    ELSE IF RatLess(Zero, actual_time_per_simulation.value)
                    THEN [raised |-> speed.raised,
                          value |-> RatMul(speed.value, hundred)]
                    ELSE Returned(Zero)
      part == TrueDiv(in.valid_simulations, in.total_simulations)
      quality == IF RatLess(Zero, in.total_simulations)
                 THEN [raised |-> part.raised, value |-> RatMul(part.value, hundred)]
                 ELSE Returned(Zero)
      effectiveness ==
        TrueDiv(RatMul(RatMul(availability.value, efficiency.value), quality.value),
                RatMul(hundred, hundred))
  IN IF availability.raised \/ efficiency.raised \/ quality.raised \/ effectiveness.raised
     THEN Returned(OeeDict(Zero, Zero, Zero, Zero))
     ELSE Returned(OeeDict(availability.value, efficiency.value, quality.value,
                           effectiveness.value))

-----------------------------------------------------------------------------
(* OEECalculator.generate_report(oee_data, model_name).  The report is the  *)
(* sequence of its lines; a line is its kind, its fixed text, the name it   *)
(* carries and the number it prints.  A status line's text is its label     *)
(* (the words after the label are fixed by the label).                      *)
Line(kind, text, name, value) ==
  [kind |-> kind, text |-> text, name |-> name, value |-> value]

Blank == Line("blank", "", << >>, 0)

(* round to the nearest integer, a tie to the even one *)
RoundHalfEven(r) ==
  LET f == r.n \div r.d
      twice == 2 * (r.n - f * r.d)
  IN IF twice < r.d THEN f
     ELSE IF twice > r.d THEN f + 1
     ELSE IF f % 2 = 0 THEN f ELSE f + 1

(* format spec .2%: the value in hundredths of a percent *)
FormatPercent(r) == RoundHalfEven(RatMul(r, Rat(10000, 1)))

ExcellentThreshold == Rat(85, 100)
GoodThreshold == Rat(70, 100)
FairThreshold == Rat(60, 100)
AvailabilityTarget == Rat(90, 100)
EfficiencyTarget == Rat(95, 100)
QualityTarget == Rat(99, 100)

StatusLabelStrict(effectiveness) ==
  IF RatLess(ExcellentThreshold, effectiveness) THEN "EXCELLENT"
  ELSE IF RatLess(GoodThreshold, effectiveness) THEN "GOOD"
  ELSE IF RatLess(FairThreshold, effectiveness) THEN "FAIR"
  ELSE "POOR"

(* the if / elif chain on oee_data['effectiveness'] *)
StatusLabel(effectiveness) ==
  IF RatLeq(ExcellentThreshold, effectiveness) THEN "EXCELLENT"
  ELSE IF RatLeq(GoodThreshold, effectiveness) THEN "GOOD"
  ELSE IF RatLeq(FairThreshold, effectiveness) THEN "FAIR"
  ELSE "POOR"

ImprovementsFirstOnly(oee_data) ==
  IF RatLess(oee_data.availability, AvailabilityTarget)
  THEN <<Line("improve", "Availability", << >>, 0)>>
  ELSE IF RatLess(oee_data.efficiency, EfficiencyTarget)
  THEN <<Line("improve", "Efficiency", << >>, 0)>>
  ELSE IF RatLess(oee_data.quality, QualityTarget)
  THEN <<Line("improve", "Quality", << >>, 0)>>
  ELSE << >>

(* the three independent ifs under "Areas for Improvement" *)
Improvements(oee_data) ==
  (IF RatLess(oee_data.availability, AvailabilityTarget)
   THEN <<Line("improve", "Availability", << >>, 0)>> ELSE << >>)
  \o (IF RatLess(oee_data.efficiency, EfficiencyTarget)
      THEN <<Line("improve", "Efficiency", << >>, 0)>> ELSE << >>)
  \o (IF RatLess(oee_data.quality, QualityTarget)
      THEN <<Line("improve", "Quality", << >>, 0)>> ELSE << >>)

GenerateReport(oee_data, model_name, t) ==
  <<Line("title", "OEE REPORT", model_name, 0),
    Line("generated", "Generated", << >>, StrfTime(t)),
    Line("rule", "=", << >>, 50),
    Blank,
    Line("metric", "Availability (A)", << >>, FormatPercent(oee_data.availability)),
    Line("metric", "Efficiency (B)", << >>, FormatPercent(oee_data.efficiency)),
    Line("metric", "Quality (C)", << >>, FormatPercent(oee_data.quality)),
    Line("rule", "=", << >>, 30),
    Line("metric", "Overall Effectiveness (Z)", << >>,
         FormatPercent(oee_data.effectiveness)),
    Blank,
    Line("status", StatusLabel(oee_data.effectiveness), << >>, 0),
    Blank,
    Line("heading", "Areas for Improvement", << >>, 0)>>
  \o Improvements(oee_data)

-----------------------------------------------------------------------------
(* The calls made to the calculator.  The six inputs range over the         *)
(* multiples of one half from -1/2 to MaxInput/2, and take the values the   *)
(* input form starts with.                                                  *)
MaxInput == 3
Spread == 1

DefaultTotalTime == 480
DefaultDowntime == 48
DefaultCompleted == 102
DefaultIdealTime == 4
DefaultTotalSims == 102
DefaultValidSims == 97

Inputs == {Rat(k, 2) : k \in (-1)..MaxInput}

Measurement(t, d, c, i, n, v) ==
  [total_time |-> t, downtime |-> d, completed_simulations |-> c,
   ideal_time_per_simulation |-> i, total_simulations |-> n,
   valid_simulations |-> v]

Defaults ==
  Measurement(Rat(DefaultTotalTime, 1), Rat(DefaultDowntime, 1),
              Rat(DefaultCompleted, 1), Rat(DefaultIdealTime, 1),
              Rat(DefaultTotalSims, 1), Rat(DefaultValidSims, 1))

(* a call of an entry point that takes the six measurements is pending: on  *)
(* the default values of the form or on any six of the input values         *)
PendingMeasurements(fn) ==
  \/ lastOp = Call(fn, Defaults)
  \/ \E t, d, c, i, n, v \in Inputs : lastOp = Call(fn, Measurement(t, d, c, i, n, v))

AvailabilityArgs ==
  {[total_time |-> t, downtime |-> d] : t, d \in Inputs}
    \cup {[total_time |-> Defaults.total_time, downtime |-> Defaults.downtime]}

EfficiencyArgs ==
  {[completed_simulations |-> c, total_time |-> t, ideal_time_per_simulation |-> i] :
     c, t, i \in Inputs}
    \cup {[completed_simulations |-> Defaults.completed_simulations,
           total_time |-> Defaults.total_time,
           ideal_time_per_simulation |-> Defaults.ideal_time_per_simulation]}

QualityArgs ==
  {[total_simulations |-> n, valid_simulations |-> v] : n, v \in Inputs}
    \cup {[total_simulations |-> Defaults.total_simulations,
           valid_simulations |-> Defaults.valid_simulations]}

EffectivenessArgs ==
  {[availability |-> a, efficiency |-> b, quality |-> c] : a, b, c \in Inputs}

(* the values a report is asked for: around each threshold of the report *)
Around(p) == {Rat(k, 100) : k \in (p - Spread)..(p + Spread)}

EffectivenessValues ==
  Around(85) \cup Around(70) \cup Around(60) \cup {Zero, One, Rat(-1, 2), Rat(3, 2)}

ReportArgs ==
  {[oee_data |-> OeeDict(a, b, c, z), model_name |-> NameSpace] :
     a \in Around(90), b \in Around(95), c \in Around(99), z \in EffectivenessValues}

CalculatorCalls ==
  {Call("calculate_availability", x) : x \in AvailabilityArgs}
    \cup {Call("calculate_efficiency", x) : x \in EfficiencyArgs}
    \cup {Call("calculate_quality", x) : x \in QualityArgs}
    \cup {Call("calculate_effectiveness", x) : x \in EffectivenessArgs}
    \cup {Call("generate_report", x) : x \in ReportArgs}

Calling(fn) == lastOp.op = "call" /\ lastOp.fn = fn

Outcome(op, args, r) ==
  [op |-> op, args |-> args, raised |-> r.raised, return |-> r.value]

(* only generate_report reads the clock *)
CalcInit ==
  /\ \/ lastOp \in CalculatorCalls
     \/ PendingMeasurements("calculate_complete_oee")
     \/ PendingMeasurements("calculate_metrics")
  /\ now \in {t \in Instants : lastOp.fn = "generate_report" \/ t = 0}
  /\ files = << >>
  /\ dashboard = NoDashboard

AvailabilityCall ==
  /\ Calling("calculate_availability")
  /\ lastOp' = Outcome("availability", lastOp.args,
                       CalculateAvailability(lastOp.args.total_time,
                                             lastOp.args.downtime))
  /\ UNCHANGED <<now, files, dashboard>>

EfficiencyCall ==
  /\ Calling("calculate_efficiency")
  /\ lastOp' = Outcome("efficiency", lastOp.args,
                       CalculateEfficiency(lastOp.args.completed_simulations,
                                           lastOp.args.total_time,
                                           lastOp.args.ideal_time_per_simulation))
  /\ UNCHANGED <<now, files, dashboard>>

QualityCall ==
  /\ Calling("calculate_quality")
  /\ lastOp' = Outcome("quality", lastOp.args,
                       CalculateQuality(lastOp.args.total_simulations,
                                        lastOp.args.valid_simulations))
  /\ UNCHANGED <<now, files, dashboard>>

EffectivenessCall ==
  /\ Calling("calculate_effectiveness")
  /\ lastOp' = Outcome("effectiveness", lastOp.args,
                       CalculateEffectiveness(lastOp.args.availability,
                                              lastOp.args.efficiency,
                                              lastOp.args.quality))
  /\ UNCHANGED <<now, files, dashboard>>

CompleteOeeCall ==
  /\ Calling("calculate_complete_oee")
  /\ lastOp' = Outcome("complete_oee", lastOp.args, CalculateCompleteOee(lastOp.args))
  /\ UNCHANGED <<now, files, dashboard>>

MetricsCall ==
  /\ Calling("calculate_metrics")
  /\ lastOp' = Outcome("metrics", lastOp.args, CalculateMetrics(lastOp.args))
  /\ UNCHANGED <<now, files, dashboard>>

(* generate_report reads the clock for its "Generated" line *)
ReportCall ==
  /\ Calling("generate_report")
  /\ lastOp' = Outcome("report", lastOp.args,
                       Returned(GenerateReport(lastOp.args.oee_data,
                                               lastOp.args.model_name, now)))
  /\ UNCHANGED <<now, files, dashboard>>

CalcNext ==
  \/ AvailabilityCall
  \/ EfficiencyCall
  \/ QualityCall
  \/ EffectivenessCall
  \/ CompleteOeeCall
  \/ MetricsCall
  \/ ReportCall

CalcSpec == CalcInit /\ [][CalcNext]_vars

-----------------------------------------------------------------------------
(* OEEDashboard: the process list, the selected process and the forms.      *)
(* dashboard.models is self.models, dashboard.current_model the variable    *)
(* behind the dashboard's combo box, dashboard.dropdown_values the values   *)
(* that combo box was last configured with (adding a process does not       *)
(* reconfigure it).  The input tab's selection is a member of models.       *)

Range(s) == {s[i] : i \in DOMAIN s}

(* str.strip() *)
RECURSIVE LStrip(_)
LStrip(s) == IF s /= << >> /\ Head(s) = " " THEN LStrip(Tail(s)) ELSE s

RECURSIVE RStrip(_)
RStrip(s) ==
  IF s /= << >> /\ s[Len(s)] = " " THEN RStrip(SubSeq(s, 1, Len(s) - 1)) ELSE s

Strip(s) == RStrip(LStrip(s))

(* list.remove(x): the first occurrence goes *)
RECURSIVE Remove(_, _)
Remove(s, x) ==
  IF s = << >> THEN << >>
  ELSE IF Head(s) = x THEN Tail(s)
  ELSE <<Head(s)>> \o Remove(Tail(s), x)

ProcessNames == {NameSpace, NameOther}

(* what is typed into the "Process Name" entry *)
EntryTexts == {<<" ">>, <<" ", "Z">>, NameSpace}

(* the dashboard after load_state read a saved process list *)
Loaded(models, last_model) ==
  [models |-> models,
   current_model |-> IF last_model \in Range(models) THEN last_model ELSE models[1],
   dropdown_values |-> models]

NoDuplicates(s) == \A i, j \in DOMAIN s : s[i] = s[j] => i = j

ProcessLists ==
  {s \in UNION {[1..n -> ProcessNames] : n \in 1..Cardinality(ProcessNames)} :
     NoDuplicates(s)}

StartDashboards == {Loaded(s, c) : s \in ProcessLists, c \in ProcessNames}

(* the values of the input form: the defaults, and values the Calculate     *)
(* button would reject (downtime above the total time, more valid than      *)
(* total simulations)                                                       *)
Rejected ==
  Measurement(Rat(1, 1), Rat(3, 2), Rat(1, 1), Rat(1, 2), Rat(1, 1), Rat(2, 1))

FormValues == {Defaults, Rejected}

Notes == JsonStr

(* tk.DoubleVar gives a float, tk.IntVar an int *)
FormKind(field) ==
  IF field \in {"completed_simulations", "total_simulations", "valid_simulations"}
  THEN "int" ELSE "float"

(* the dictionary save_simulation_data builds *)
SimulationDataSwapped(form, oee_data) ==
  [k \in FieldSet \cup {"notes"} |->
     IF k = "notes" THEN Notes
     ELSE IF k = "availability" THEN JsonFloat(oee_data.quality)
     ELSE IF k = "quality" THEN JsonFloat(oee_data.availability)
     ELSE IF k \in DOMAIN oee_data THEN JsonFloat(oee_data[k])
     ELSE [kind |-> FormKind(k), num |-> form[k]]]

SimulationData(form, oee_data) ==
  [k \in FieldSet \cup {"notes"} |->
     IF k = "notes" THEN Notes
     ELSE IF k \in DOMAIN oee_data THEN JsonFloat(oee_data[k])
     ELSE [kind |-> FormKind(k), num |-> form[k]]]

(* the save of the form goes through, or the file cannot be opened *)
FormOutcomes == {"ok", "open_fails"}

(* save_simulation_data: no validation; an exception of the calculation or  *)
(* of the save ends in an error box.  The refresh of the dashboard and of   *)
(* the history after the save only reads the store.                         *)
SaveSimulationData ==
  \E form \in FormValues, model_name \in Range(dashboard.models),
     t2 \in {now, now + 1} \cap Instants, io \in FormOutcomes :
    LET oee_data == CalculateCompleteOee(form)
        simulation_data ==
          Dict(Absent, TsOf("absent"), SimulationData(form, oee_data.value))
        failed == oee_data.raised \/ SaveRaises("json", io)
    IN /\ lastOp = NoOp
       /\ (SavePath(model_name, "json") \notin DOMAIN files)
            => Cardinality(DOMAIN files) < MaxFiles
       /\ now' = IF oee_data.raised THEN now ELSE t2
       /\ files' = IF oee_data.raised THEN files
                   ELSE SaveFiles(simulation_data, model_name, "json", t2, io)
       /\ lastOp' = [op |-> "save_simulation_data", name |-> model_name,
                     raised |-> failed,
                     path |-> IF failed THEN Absent
                              ELSE Some(SavePath(model_name, "json"))]
       /\ UNCHANGED dashboard

(* add_new_process, the dialog's save_process *)
AddNewProcess ==
  \E typed \in EntryTexts :
    LET new_process == Strip(typed)
        added == new_process /= << >> /\ new_process \notin Range(dashboard.models)
    IN /\ lastOp = NoOp
       /\ dashboard' =
            IF added
            THEN [dashboard EXCEPT !.models = Append(@, new_process),
                                   !.current_model = new_process]
            ELSE dashboard
       /\ lastOp' = [op |-> "add_new_process", name |-> new_process,
                     added |-> added]
       /\ UNCHANGED <<now, files>>

(* get_latest_data(model_name): the newest record of the last 30 days, None *)
(* when there is none or when the query raised                              *)
LatestDays == 30
LatestLimit == 1

GetLatestData(fs, order, t, model_name) ==
  LET r == GetRecentSimulations(fs, order, t, Some(model_name), LatestDays, LatestLimit)
  IN IF r.raised \/ r.results = << >> THEN Absent ELSE Some(r.results[1].data)

(* update_dashboard: the metrics shown for the selected process *)
Shown(latest_data) ==
  IF ~latest_data.present THEN EmptyMapping
  ELSE CalculateAverageMetrics(<<latest_data.v.payload>>)

(* a process is picked in the dashboard's combo box: update_dashboard *)
SelectProcess ==
  \E process \in Range(dashboard.dropdown_values), order \in Orders(DOMAIN files) :
    LET latest_data == GetLatestData(files, order, now, process)
    IN /\ lastOp = NoOp
       /\ dashboard' = [dashboard EXCEPT !.current_model = process]
       /\ lastOp' = [op |-> "update_dashboard", name |-> process,
                     latest_data |-> latest_data, shown |-> Shown(latest_data)]
       /\ UNCHANGED <<now, files>>

(* load_history_data: "All Processes" or a process, the last 30 days *)
HistoryDays == 30

LoadHistoryData ==
  \E q \in {Absent} \cup {Some(m) : m \in Range(dashboard.models)},
     order \in Orders(DOMAIN files) :
    LET r == GetRecentSimulations(files, order, now, q, HistoryDays, DefaultLimit)
    IN /\ lastOp = NoOp
       /\ lastOp' = [op |-> "load_history_data",
                     query |-> [name |-> q, days |-> HistoryDays, limit |-> DefaultLimit],
                     raised |-> r.raised, results |-> r.results]
       /\ UNCHANGED <<now, files, dashboard>>

(* delete_process: refused for the last process; after the confirmation the *)
(* data files of the selected process are deleted, the process leaves the   *)
(* list and the first remaining process is selected                         *)
DeleteProcess ==
  \E confirmed \in BOOLEAN :
    \E failing \in SUBSET Matching(files, dashboard.current_model) :
      LET current_process == dashboard.current_model
          refused == Len(dashboard.models) <= 1
          found == current_process \in Range(dashboard.models)
          deleted == ~refused /\ confirmed /\ found
          removed == Matching(files, current_process) \ failing
          models == Remove(dashboard.models, current_process)
      IN /\ lastOp = NoOp
         /\ ~deleted => failing = {}
         /\ files' = IF deleted THEN RemoveFiles(files, removed) ELSE files
         /\ dashboard' =
              IF deleted
              THEN [models |-> models, current_model |-> models[1],
                    dropdown_values |-> models]
              ELSE dashboard
         /\ lastOp' = [op |-> "delete_process", name |-> current_process,
                       deleted |-> deleted,
                       refused |-> refused,
                       deleted_files |-> IF deleted THEN Cardinality(removed) ELSE 0,
                       failed |-> Cardinality(failing)]
         /\ UNCHANGED now

DashInit ==
  /\ now = 0
  /\ files = << >>
  /\ dashboard \in StartDashboards
  /\ lastOp = NoOp

DashNext ==
  \/ Tick
  \/ Return
  \/ AddNewProcess
  \/ SelectProcess
  \/ SaveSimulationData
  \/ LoadHistoryData
  \/ DeleteProcess

DashSpec == DashInit /\ [][DashNext]_vars

-----------------------------------------------------------------------------
(* The dashboard's state file and the command line, on the directory the    *)
(* dashboard saves into: config_file is data/dashboard_config.json and the  *)
(* storage directory of every SimulationDataHandler() is data.              *)
ConfigFile == FileName(<<"dashboard_config">>, 0, "json")

(* the state dictionary of save_state, without its timestamp *)
State(d) ==
  [models |-> d.models, last_selected_model |-> d.current_model,
   window_geometry |-> JsonStr]

(* save_state: an exception ends in an error box *)
SaveState ==
  \E io \in FormOutcomes :
    /\ lastOp = NoOp
    /\ (ConfigFile \notin DOMAIN files) => Cardinality(DOMAIN files) < MaxFiles
    /\ files' = IF io = "ok"
                THEN WriteFile(files, ConfigFile, Dict(Absent, IsoTs(now), State(dashboard)))
                ELSE files
    /\ lastOp' = [op |-> "save_state", raised |-> io /= "ok"]
    /\ UNCHANGED <<now, dashboard>>

(* the parameters of calculate_complete_oee and the keywords run_cli calls  *)
(* it with                                                                  *)
Parameters ==
  {"total_time", "downtime", "completed_simulations",
   "ideal_time_per_simulation", "total_simulations", "valid_simulations"}

CliKeywords ==
  {"planned_time", "downtime", "actual_cycle_time", "ideal_cycle_time",
   "total_simulations", "failed_simulations"}

(* a call by keywords: every parameter is required and no other keyword is  *)
(* accepted, otherwise TypeError                                            *)
Binds(kwargs, parameters) == DOMAIN kwargs = parameters

(* the values of the command line, by keyword *)
CliValues ==
  {[k \in CliKeywords |-> One],
   [k \in CliKeywords |-> IF k = "downtime" THEN Zero ELSE One]}

(* the keys run_cli reads from the result for the record it saves *)
SavedKeys == {"availability", "performance", "quality", "oee"}

(* the dictionary run_cli saves *)
CliRecord(kwargs, oee_data) ==
  Dict(Absent, TsOf("absent"),
       [k \in CliKeywords \cup SavedKeys \cup {"notes"} |->
          IF k = "notes" THEN Notes
          ELSE IF k \in SavedKeys THEN JsonFloat(oee_data[k])
          ELSE JsonFloat(kwargs[k])])

CliOutcome(model_name, save, raised, printed) ==
  [op |-> "cli_calculate", name |-> model_name, save |-> save,
   raised |-> raised, printed |-> printed]

(* what follows the calculation: the report is printed, then the record is  *)
(* built and saved when --save is given                                     *)
Calculated(oee_data, report, kwargs, model_name, save, t2) ==
  IF ~save
  THEN [now |-> now, files |-> files,
        outcome |-> CliOutcome(model_name, save, FALSE, report)]
  ELSE IF ~(SavedKeys \subseteq DOMAIN oee_data)
  THEN [now |-> now, files |-> files,
        outcome |-> CliOutcome(model_name, save, TRUE, report)]
  ELSE [now |-> t2,
        files |-> SaveFiles(CliRecord(kwargs, oee_data), model_name, "json", t2, "ok"),
        outcome |-> CliOutcome(model_name, save, FALSE, report)]

(* run_cli, command "calculate": the exception of the call, or of a key the *)
(* result does not have, leaves run_cli before anything further is printed  *)
(* or saved                                                                 *)
RunCalculate(oee_data, kwargs, model_name, save, t2) ==
  IF ~Binds(kwargs, Parameters) \/ oee_data.raised
  THEN [now |-> now, files |-> files,
        outcome |-> CliOutcome(model_name, save, TRUE, << >>)]
  ELSE Calculated(oee_data.value, GenerateReport(oee_data.value, model_name, now),
                  kwargs, model_name, save, t2)

CliCalculate ==
  \E kwargs \in CliValues, model_name \in ProcessNames, save \in BOOLEAN,
     t2 \in {now, now + 1} \cap Instants :
    LET r == RunCalculate(CalculateCompleteOee(kwargs), kwargs, model_name, save, t2)
    IN /\ lastOp = NoOp
       /\ now' = r.now
       /\ files' = r.files
       /\ lastOp' = r.outcome
       /\ UNCHANGED dashboard

(* dict.get(key, 0) *)
Get(mapping, key) == IF key \in DOMAIN mapping THEN mapping[key] ELSE Zero

(* --days of the report command, by default *)
ReportDays == 30

(* run_cli, command "report" *)
CliReport ==
  \E model_name \in ProcessNames, order \in Orders(DOMAIN files) :
    LET r == GetRecentSimulations(files, order, now, Some(model_name), ReportDays,
                                  DefaultLimit)
        data_list == [i \in DOMAIN r.results |-> r.results[i].data.payload]
        avg_metrics == CalculateAverageMetrics(data_list)
    IN /\ lastOp = NoOp
       /\ lastOp' = [op |-> "cli_report", name |-> model_name,
                     raised |-> r.raised,
                     runs |-> Len(r.results),
                     printed |->
                       IF r.raised \/ r.results = << >> THEN EmptyMapping
                       ELSE [availability |-> Get(avg_metrics, "availability"),
                             performance |-> Get(avg_metrics, "performance"),
                             quality |-> Get(avg_metrics, "quality"),
                             oee |-> Get(avg_metrics, "oee")]]
       /\ UNCHANGED <<now, files, dashboard>>

(* the dashboard runs with two processes; the command line is used next to  *)
(* it on the same directory                                                 *)
AppInit ==
  /\ now = 0
  /\ files = << >>
  /\ dashboard = Loaded(<<NameSpace, NameOther>>, NameSpace)
  /\ lastOp = NoOp

AppNext ==
  \/ Tick
  \/ Return
  \/ SaveSimulationData
  \/ SaveState
  \/ LoadHistoryData
  \/ DeleteProcessData
  \/ CliCalculate
  \/ CliReport

AppSpec == AppInit /\ [][AppNext]_vars

-----------------------------------------------------------------------------
(* Vocabulary of the calculator claims *)
Did(op) == lastOp.op = op

Whole(n) == Rat(n, 1)

(* x clamped to [0,1] *)
Clamp01(x) == IF RatLess(x, Zero) THEN Zero ELSE IF RatLess(One, x) THEN One ELSE x

InUnit(x) == RatLeq(Zero, x) /\ RatLeq(x, One)

(* C14: availability is 0 for total_time <= 0; for total_time > 0 it is     *)
(* (total_time - downtime) / total_time clamped to [0,1]: that quotient     *)
(* when 0 <= downtime <= total_time, 0 when downtime > total_time, 1 when   *)
(* downtime < 0.                                                            *)
C14_Availability ==
  Did("availability") =>
    LET t == lastOp.args.total_time
        d == lastOp.args.downtime
    IN /\ ~lastOp.raised
       /\ RatLeq(t, Zero) => lastOp.return = Zero
       /\ RatLess(Zero, t) =>
            /\ lastOp.return = Clamp01(RatDiv(RatSub(t, d), t))
            /\ (RatLeq(Zero, d) /\ RatLeq(d, t)) =>
                 lastOp.return = RatDiv(RatSub(t, d), t)
            /\ RatLess(t, d) => lastOp.return = Zero
            /\ RatLess(d, Zero) => lastOp.return = One

C14_Witness ==
  /\ Did("availability")
  /\ lastOp.args.total_time = Whole(DefaultTotalTime)
  /\ lastOp.args.downtime = Whole(DefaultDowntime)
  /\ lastOp.return = Rat(9, 10)

(* C15: efficiency is 0 when total_time <= 0 or the ideal time per unit is  *)
(* <= 0; otherwise it is completed * ideal / total_time clamped to [0,1],   *)
(* which is also the ratio of the actual rate completed / total_time to the *)
(* ideal rate 1 / ideal, clamped.                                           *)
C15_Efficiency ==
  Did("efficiency") =>
    LET c == lastOp.args.completed_simulations
        t == lastOp.args.total_time
        i == lastOp.args.ideal_time_per_simulation
    IN /\ ~lastOp.raised
       /\ (RatLeq(t, Zero) \/ RatLeq(i, Zero)) => lastOp.return = Zero
       /\ (RatLess(Zero, t) /\ RatLess(Zero, i)) =>
            /\ lastOp.return = Clamp01(RatDiv(RatMul(c, i), t))
            /\ lastOp.return = Clamp01(RatDiv(RatDiv(c, t), RatDiv(One, i)))

C15_Witness ==
  /\ Did("efficiency")
  /\ lastOp.args.completed_simulations = Whole(DefaultCompleted)
  /\ lastOp.args.ideal_time_per_simulation = Whole(DefaultIdealTime)
  /\ lastOp.args.total_time = Whole(DefaultTotalTime)
  /\ lastOp.return = Rat(17, 20)

(* C16: quality is 0 for total <= 0; for total > 0 it is valid / total      *)
(* clamped to [0,1], so exactly 0 when valid < 0.                           *)
C16_Quality ==
  Did("quality") =>
    LET n == lastOp.args.total_simulations
        v == lastOp.args.valid_simulations
    IN /\ ~lastOp.raised
       /\ RatLeq(n, Zero) => lastOp.return = Zero
       /\ RatLess(Zero, n) =>
            /\ lastOp.return = Clamp01(RatDiv(v, n))
            /\ RatLess(v, Zero) => lastOp.return = Zero

C16_Witness ==
  /\ Did("quality")
  /\ RatLess(Zero, lastOp.args.total_simulations)
  /\ RatLess(lastOp.args.valid_simulations, Zero)
  /\ lastOp.return = Zero

(* C17, as stated: quality with valid > total is exactly 1, for every pair  *)
(* of inputs with valid > total, and nothing is raised.                     *)
C17_AboveTotalIsOne ==
  (Did("quality")
     /\ RatLess(lastOp.args.total_simulations, lastOp.args.valid_simulations)) =>
    (~lastOp.raised /\ lastOp.return = One)

(* C17, amended: quality with total > 0 and valid > total is exactly 1 and  *)
(* nothing is raised; with total <= 0 it is 0 whatever valid is.            *)
C17_AboveTotalIsOneAmended ==
  Did("quality") =>
    /\ ~lastOp.raised
    /\ (RatLess(Zero, lastOp.args.total_simulations)
          /\ RatLess(lastOp.args.total_simulations, lastOp.args.valid_simulations)) =>
         lastOp.return = One
    /\ RatLeq(lastOp.args.total_simulations, Zero) => lastOp.return = Zero

C17_Witness ==
  /\ Did("quality")
  /\ RatLess(Zero, lastOp.args.total_simulations)
  /\ RatLess(lastOp.args.total_simulations, lastOp.args.valid_simulations)
  /\ ~lastOp.raised
  /\ lastOp.return = One

(* C18: calculate_complete_oee returns the availability, efficiency and     *)
(* quality that the three functions return on the same inputs, and as       *)
(* effectiveness exactly the product of those three returned values.        *)
C18_Composition ==
  Did("complete_oee") =>
    LET in == lastOp.args
        a == CalculateAvailability(in.total_time, in.downtime)
        b == CalculateEfficiency(in.completed_simulations, in.total_time,
                                 in.ideal_time_per_simulation)
        c == CalculateQuality(in.total_simulations, in.valid_simulations)
    IN /\ lastOp.return.availability = a.value
       /\ lastOp.return.efficiency = b.value
       /\ lastOp.return.quality = c.value
       /\ lastOp.return.effectiveness.n * a.value.d * b.value.d * c.value.d
            = a.value.n * b.value.n * c.value.n * lastOp.return.effectiveness.d

C18_Witness ==
  /\ Did("complete_oee")
  /\ lastOp.args = Defaults
  /\ lastOp.return = OeeDict(Rat(9, 10), Rat(17, 20), Rat(97, 102), Rat(291, 400))

(* C19: for every combination of the six inputs calculate_complete_oee      *)
(* returns without raising and each of the four ratios lies in [0,1]; with  *)
(* total_time <= 0 availability, efficiency and effectiveness are 0.        *)
C19_Saturating ==
  Did("complete_oee") =>
    /\ ~lastOp.raised
    /\ InUnit(lastOp.return.availability)
    /\ InUnit(lastOp.return.efficiency)
    /\ InUnit(lastOp.return.quality)
    /\ InUnit(lastOp.return.effectiveness)
    /\ RatLeq(lastOp.args.total_time, Zero) =>
         /\ lastOp.return.availability = Zero
         /\ lastOp.return.efficiency = Zero
         /\ lastOp.return.effectiveness = Zero

C19_Witness ==
  /\ Did("complete_oee")
  /\ lastOp.args.total_time = Zero
  /\ RatLess(lastOp.args.total_time, lastOp.args.downtime)
  /\ RatLess(Zero, lastOp.args.total_simulations)
  /\ RatLess(lastOp.args.total_simulations, lastOp.args.valid_simulations)
  /\ RatLess(lastOp.args.completed_simulations, Zero)
  /\ ~lastOp.raised
  /\ lastOp.return = OeeDict(Zero, Zero, One, Zero)

(* effectiveness >= pct / 100 *)
AtLeast(z, pct) == z.n * 100 >= pct * z.d

StatusLines(report) == {i \in DOMAIN report : report[i].kind = "status"}

(* C20: the report has exactly one status line, and its label is decided by *)
(* the effectiveness alone: EXCELLENT from 0.85, GOOD from 0.70 up to 0.85, *)
(* FAIR from 0.60 up to 0.70, POOR below; 0.85, 0.70 and 0.60 belong to the *)
(* higher band.                                                             *)
C20_StatusBands ==
  Did("report") =>
    LET z == lastOp.args.oee_data.effectiveness
        S == StatusLines(lastOp.return)
    IN /\ Cardinality(S) = 1
       /\ \A i \in S :
            lastOp.return[i].text =
              IF AtLeast(z, 85) THEN "EXCELLENT"
              ELSE IF AtLeast(z, 70) THEN "GOOD"
              ELSE IF AtLeast(z, 60) THEN "FAIR"
              ELSE "POOR"

C20_Witness ==
  /\ Did("report")
  /\ lastOp.args.oee_data.effectiveness = Rat(70, 100)
  /\ \E i \in DOMAIN lastOp.return :
       lastOp.return[i].kind = "status" /\ lastOp.return[i].text = "GOOD"


(* value < pct / 100 *)
Below(x, pct) == x.n * 100 < pct * x.d

(* the positions of the suggestion lines of a factor *)
Suggestions(report, factor) ==
  {i \in DOMAIN report : report[i].kind = "improve" /\ report[i].text = factor}

(* C21: the report suggests an improvement per factor, each on its own: the *)
(* availability line is there exactly when availability < 0.90, the         *)
(* efficiency line exactly when efficiency < 0.95, the quality line exactly *)
(* when quality < 0.99, each at most once, whatever the other factors and   *)
(* the status label are.                                                    *)
C21_Suggestions ==
  Did("report") =>
    LET d == lastOp.args.oee_data
        n(factor) == Cardinality(Suggestions(lastOp.return, factor))
    IN /\ n("Availability") = (IF Below(d.availability, 90) THEN 1 ELSE 0)
       /\ n("Efficiency") = (IF Below(d.efficiency, 95) THEN 1 ELSE 0)
       /\ n("Quality") = (IF Below(d.quality, 99) THEN 1 ELSE 0)

C21_Witness ==
  /\ Did("report")
  /\ lastOp.args.oee_data.availability = Rat(90, 100)
  /\ lastOp.args.oee_data.efficiency = Rat(94, 100)
  /\ lastOp.args.oee_data.quality = Rat(98, 100)
  /\ Suggestions(lastOp.return, "Availability") = {}
  /\ Suggestions(lastOp.return, "Efficiency") /= {}
  /\ Suggestions(lastOp.return, "Quality") /= {}
  /\ \E i \in DOMAIN lastOp.return :
       lastOp.return[i].kind = "status" /\ lastOp.return[i].text = "EXCELLENT"


-----------------------------------------------------------------------------
(* Properties of append and load *)

Saved == lastOp.op = "save" /\ ~lastOp.raised

(* the record stored under the path the last save returned *)
Stored == files[lastOp.path.v]

(* C22: a save keeps the created_at the record handed in already carries    *)
(* and stamps the clock value of the save on a record that carries none;   *)
(* the stored record carries the process name given to the save.            *)
C22_CreatedAtIfAbsent ==
  Saved =>
    /\ Stored.model_name = Some(lastOp.name)
    /\ Stored.timestamp =
         IF lastOp.simulation_data.timestamp.kind = "absent"
         THEN IsoTs(now) ELSE lastOp.simulation_data.timestamp


(* C23: the identifier an append returns is enough to load the record back: *)
(* loading it right after the append returns the appended record, and every *)
(* identifier handed out before still loads the same record after a later   *)
(* append.                                                                  *)
C23_LoadByIdentifier ==
  [][ (lastOp'.op = "save" /\ ~lastOp'.raised)
      => ( /\ LoadSimulationRun(files', lastOp'.path.v) =
                [raised |-> FALSE,
                 return |-> Dict(Some(lastOp'.name), IsoTs(now'),
                                 lastOp'.simulation_data.payload)]
           /\ \A p \in DOMAIN files :
                IsRecord(files[p]) =>
                  LoadSimulationRun(files', p) = LoadSimulationRun(files, p) ) ]_vars


(* C24: creation times follow the save order: when a record is appended,   *)
(* no record appended before it carries a later creation time than the one  *)
(* it is stored with.                                                       *)
C24_CreatedAtMonotonic ==
  [][ (lastOp'.op = "save" /\ ~lastOp'.raised)
      => \A f \in DOMAIN files :
           IsRecord(files[f]) =>
             CreatedAt(files[f]) <= CreatedAt(files'[lastOp'.path.v]) ]_vars

C24_Witness ==
  /\ Saved
  /\ \E f \in DOMAIN files :
       /\ f /= lastOp.path.v
       /\ IsRecord(files[f])
       /\ CreatedAt(files[f]) < CreatedAt(Stored)


-----------------------------------------------------------------------------
(* C30: the two metric entry points agree: on every input tuple            *)
(* calculate_metrics returns the availability, efficiency, quality and      *)
(* effectiveness that calculate_complete_oee returns.                       *)
C30_EntryPointsAgree ==
  Did("metrics") =>
    /\ ~CalculateCompleteOee(lastOp.args).raised
    /\ lastOp.return = CalculateCompleteOee(lastOp.args).value


-----------------------------------------------------------------------------
(* Properties of the dashboard *)

(* C27: delete_process_data(p) leaves every stored record of another       *)
(* process in place and unchanged, and the queries of the dashboard         *)
(* (get_recent_simulations, get_latest_data, calculate_average_metrics)     *)
(* leave the whole store unchanged.                                         *)
C27_Frame ==
  [][ /\ (lastOp'.op = "delete_process" /\ lastOp'.deleted)
           => \A f \in DOMAIN files :
                ~Belongs(files[f], lastOp'.name)
                  => (f \in DOMAIN files' /\ files'[f] = files[f])
      /\ lastOp'.op \in {"load_history_data", "update_dashboard"}
           => files' = files ]_vars

C27_Witness ==
  /\ lastOp.op = "delete_process"
  /\ lastOp.deleted
  /\ lastOp.deleted_files > 0
  /\ \E f \in DOMAIN files : IsRecord(files[f]) /\ ~Belongs(files[f], lastOp.name)

(* C28: the process list keeps at least one name and no duplicates, the     *)
(* selected process is in the list, and after a delete_process(p) that went *)
(* through p is not in the list and no stored record has process_name p.    *)
C28_ProcessList ==
  /\ Len(dashboard.models) >= 1
  /\ NoDuplicates(dashboard.models)
  /\ dashboard.current_model \in Range(dashboard.models)
  /\ (lastOp.op = "delete_process" /\ lastOp.deleted)
       => /\ lastOp.name \notin Range(dashboard.models)
          /\ \A f \in DOMAIN files : ~Belongs(files[f], lastOp.name)

(* C29: a record persisted by save_simulation_data has ratios in [0, 1]     *)
(* that are the calculator's results on its own six stored inputs, and an   *)
(* effectiveness that is the product of its three stored ratios.            *)
C29_StoredRatios ==
  \A f \in DOMAIN files :
    IsRecord(files[f]) =>
      LET p == files[f].payload
      IN /\ InUnit(p["availability"].num)
         /\ InUnit(p["efficiency"].num)
         /\ InUnit(p["quality"].num)
         /\ p["availability"].num =
              CalculateAvailability(p["total_time"].num, p["downtime"].num).value
         /\ p["efficiency"].num =
              CalculateEfficiency(p["completed_simulations"].num, p["total_time"].num,
                                  p["ideal_time_per_simulation"].num).value
         /\ p["quality"].num =
              CalculateQuality(p["total_simulations"].num, p["valid_simulations"].num).value
         /\ p["effectiveness"].num =
              RatMul(RatMul(p["availability"].num, p["efficiency"].num),
                     p["quality"].num)

C29_Witness ==
  /\ lastOp.op = "save_simulation_data"
  /\ ~lastOp.raised
  /\ LET p == files[lastOp.path.v].payload
     IN /\ RatLess(p["total_time"].num, p["downtime"].num)
        /\ RatLess(p["total_simulations"].num, p["valid_simulations"].num)
        /\ p["availability"].num = Zero
        /\ p["quality"].num = One


-----------------------------------------------------------------------------
(* Properties of the command line and of the shared directory *)

(* the records of a process a report of the last ReportDays days covers *)
Covered(name) ==
  {f \in Passing(Some(name), ReportDays) : IsRecord(files[f])}

(* the average of a stored field over a set of records *)
RECURSIVE FieldSum(_, _)
FieldSum(S, field) ==
  IF S = {} THEN Zero
  ELSE LET f == CHOOSE x \in S : TRUE
       IN RatAdd(files[f].payload[field].num, FieldSum(S \ {f}, field))

FieldMean(S, field) == RatDiv(FieldSum(S, field), Rat(Cardinality(S), 1))

(* C25: a calculate command with well-formed arguments prints the report    *)
(* without an error and, with --save, hands exactly one record to the       *)
(* store; a report command prints the averages of the stored ratios of the  *)
(* process: availability, efficiency (as performance), quality and          *)
(* effectiveness (as OEE).                                                  *)
C25_CliControlFlow ==
  [][ /\ lastOp'.op = "cli_calculate"
           => /\ ~lastOp'.raised
              /\ lastOp'.printed /= << >>
              /\ lastOp'.save =>
                   \E f \in DOMAIN files' :
                     /\ Belongs(files'[f], lastOp'.name)
                     /\ (f \notin DOMAIN files \/ files'[f] /= files[f])
              /\ ~lastOp'.save => files' = files
      /\ (lastOp'.op = "cli_report" /\ Covered(lastOp'.name) /= {})
           => /\ ~lastOp'.raised
              /\ lastOp'.printed =
                   [availability |-> FieldMean(Covered(lastOp'.name), "availability"),
                    performance |-> FieldMean(Covered(lastOp'.name), "efficiency"),
                    quality |-> FieldMean(Covered(lastOp'.name), "quality"),
                    oee |-> FieldMean(Covered(lastOp'.name), "effectiveness")] ]_vars

(* C26: what a query without a process name returns was written by          *)
(* save_simulation_run: never the dashboard's state file.                   *)
C26_OnlyAppended ==
  (lastOp.op = "load_history_data" /\ ~lastOp.raised /\ ~lastOp.query.name.present)
    => \A i \in DOMAIN lastOp.results :
         /\ lastOp.results[i].file /= ConfigFile
         /\ lastOp.results[i].data.model_name.present

=============================================================================
